---- MODULE Spec2Model ----
(***************************************************************************)
(* sessionup-boltstore: a sessionup.Store kept in one bolt bucket through  *)
(* storm.  Two versions of the store are in the repository and both are    *)
(* modelled; `variant' says which one a behaviour runs:                    *)
(*   "BoltStore"   the query based store   (package boltstore)             *)
(*   "BBoltStore"  the older, transaction based store (src/store.go)       *)
(*   "TimerStore"  the oldest store, which has no cleanup pass: Create      *)
(*                 launches one deferred delete per record                  *)
(*                                                                         *)
(* Strings are numbers: ID 0 is the empty string (the zero value), and the *)
(* byte order of the keys in the bucket is the order of the numbers.       *)
(* Instants are numbers as well.                                           *)
(***************************************************************************)
EXTENDS Integers, Sequences, FiniteSets, TLC

\* ------------------------------------------------------------------ bounds
MaxID == 2
MaxKey == 2
MaxTime == 2
NumCallers == 2

IDs == 1..MaxID
AnyIDs == 0..MaxID
Keys == 1..MaxKey
Times == 0..MaxTime
Callers == 1..NumCallers

VARIABLES
    variant,    \* which store this behaviour runs
    serial,     \* TRUE: calls are issued one at a time (no concurrent operation)
    dbOpen,     \* the bolt handle is open (engine healthy)
    now,        \* the clock
    table,      \* the committed content of the bucket: a set of records
    tx,         \* the engine's single write transaction: its owner, its pending deletes
    call,       \* per caller: the call in flight, its position, locals and result
    sw,         \* the cleanup pass in flight
    pre,        \* the committed table when the serial call in flight was issued
    built,      \* New: its arguments and what it returned
    loop,       \* the cleanup goroutine: "none", "run", "exit" or "panic"
    closeCh,    \* the stop channel: "open" or "closed"
    errCh,      \* the error channel: "open" or "closed"
    closer,     \* the Close call in flight and the Close calls that returned
    rcv,        \* the reader of CleanupErr: waiting or not, the value it got last
    timers      \* the deferred deletes that Create launched, in launch order

lifeVars == <<built, loop, closeCh, errCh, closer, rcv, timers>>
vars == <<variant, serial, dbOpen, now, table, tx, call, sw, pre, built, loop, closeCh, errCh, closer, rcv, timers>>

\* ------------------------------------------------------------------ codec
Agent(os, browser) == [OS |-> os, Browser |-> browser]

\* sessionup.Session{}: the zero session
ZeroSession ==
    [ID |-> 0, UserKey |-> 0, CreatedAt |-> 0, ExpiresAt |-> 0, IP |-> 0,
     Agent |-> Agent(0, 0), Current |-> FALSE, Meta |-> 0]

\* boltstore.newRecord: no Current and no Meta field in the record
newRecord(s) ==
    [ID |-> s.ID, CreatedAt |-> s.CreatedAt, ExpiresAt |-> s.ExpiresAt,
     UserKey |-> s.UserKey, IP |-> s.IP, Agent |-> Agent(s.Agent.OS, s.Agent.Browser)]

\* boltstore record.extractSession: Current and Meta keep their zero values
extractSession(r) ==
    [ID |-> r.ID, UserKey |-> r.UserKey, CreatedAt |-> r.CreatedAt,
     ExpiresAt |-> r.ExpiresAt, IP |-> r.IP,
     Agent |-> Agent(r.Agent.OS, r.Agent.Browser), Current |-> FALSE, Meta |-> 0]

\* bboltstore.newRecord: the record has Current, and no Meta
BBolt_newRecord(s) ==
    [ID |-> s.ID, CreatedAt |-> s.CreatedAt, ExpiresAt |-> s.ExpiresAt,
     UserKey |-> s.UserKey, IP |-> s.IP, Agent |-> Agent(s.Agent.OS, s.Agent.Browser),
     Current |-> s.Current]

\* bboltstore record.extractSession
BBolt_extractSession(r) ==
    [ID |-> r.ID, UserKey |-> r.UserKey, CreatedAt |-> r.CreatedAt,
     ExpiresAt |-> r.ExpiresAt, IP |-> r.IP,
     Agent |-> Agent(r.Agent.OS, r.Agent.Browser), Current |-> r.Current, Meta |-> 0]

Encode(s) == IF variant = "BBoltStore" THEN BBolt_newRecord(s) ELSE newRecord(s)
Decode(r) == IF variant = "BBoltStore" THEN BBolt_extractSession(r) ELSE extractSession(r)

\* ------------------------------------------------------------------ engine
\* The bucket is keyed by the record's ID (storm takes the field named ID, or
\* tagged storm:"id", as the primary key).
KeysOf(tbl) == {r.ID : r \in tbl}

\* storm One("ID", id, &r): the record under the key, or ErrNotFound.
Has(tbl, id) == \E r \in tbl : r.ID = id
One(tbl, id) == CHOOSE r \in tbl : r.ID = id

Save_appends(tbl, r) == tbl \cup {r}

Save_keepsOld(tbl, r) == IF Has(tbl, r.ID) THEN tbl ELSE tbl \cup {r}

\* storm Save(&r): a bolt Put, which replaces the value under the key.
Save(tbl, r) == {x \in tbl : x.ID # r.ID} \cup {r}

\* a bolt cursor: the records in ascending key order
RECURSIVE Cursor(_)
Cursor(tbl) ==
    IF tbl = {} THEN <<>>
    ELSE LET r == CHOOSE x \in tbl : \A y \in tbl : x.ID <= y.ID
         IN  <<r>> \o Cursor(tbl \ {r})


Find_all(tbl, key) == Cursor(tbl)

Find_fresh(tbl, key) ==
    SelectSeq(Cursor(tbl), LAMBDA r : r.UserKey = key /\ r.ExpiresAt >= now)

\* storm Find("UserKey", key, &rr): UserKey carries no index, so storm scans the
\* bucket with a cursor and keeps the records whose field equals the value.
Find(tbl, key) == SelectSeq(Cursor(tbl), LAMBDA r : r.UserKey = key)

\* storm All(&rr)
All(tbl) == Cursor(tbl)

\* storm Select(matchers...).Delete(&record{}): one write transaction that
\* removes every record the matchers accept.
QueryDelete(tbl, sel) == tbl \ sel
QueryMatches(tbl, sel) == sel # {}

\* ------------------------------------------------------------------ state
\* A caller is idle, inside a call (op, pc and the call's locals) or holds the
\* result of the call that just ended (pc = "ret", the arguments, the results).
Idle == [op |-> "none", pc |-> "idle"]
SwIdle == [pc |-> "idle", n |-> 0, todo |-> <<>>, err |-> "nil"]
NoTx == [owner |-> 0, del |-> {}]
Sweeper == NumCallers + 1

\* the sessions a caller may pass to Create
Sessions ==
    [ID : AnyIDs, UserKey : Keys, CreatedAt : {1}, ExpiresAt : Times, IP : {1},
     Agent : {Agent(1, 1)}, Current : BOOLEAN, Meta : 0..1]
\* a concurrent behaviour runs at one instant of the clock, with sessions that
\* expired before it or expire after it
ConcNow == 1
ConcSessions ==
    {s \in Sessions : s.ID \in IDs /\ ~s.Current /\ s.Meta = 0 /\ s.ExpiresAt \in {0, MaxTime}}
Inputs == IF serial THEN Sessions ELSE ConcSessions
\* the IDs and the exclusion lists a caller may pass
IDInputs == IF serial THEN AnyIDs ELSE IDs
Excludes == IF serial THEN SUBSET IDs ELSE {{}, {MaxID}}

\* New returned a store: a bucket name, a positive interval, no error
Built == [pc |-> "ok", bucket |-> 1, interval |-> 1, opened |-> TRUE, err |-> "nil"]
NoClose == [pc |-> "idle", done |-> 0]
\* a reader that drains CleanupErr
Draining == [waiting |-> TRUE, got |-> "none"]

\* a store built with a positive interval, its cleanup goroutine running, never
\* closed, CleanupErr drained
Running ==
    /\ built = Built
    /\ loop = "run"
    /\ closeCh = "open"
    /\ errCh = "open"
    /\ closer = NoClose
    /\ rcv = Draining

Init ==
    /\ variant \in {"BoltStore", "BBoltStore"}
    /\ serial \in BOOLEAN
    /\ dbOpen = TRUE
    /\ now = IF serial THEN 0 ELSE ConcNow
    /\ table = {}
    /\ tx = NoTx
    /\ call = [c \in Callers |-> Idle]
    /\ sw = SwIdle
    /\ pre = {}
    /\ Running
    /\ timers = <<>>

\* A call may be issued when its caller is idle; in a serial behaviour, when
\* nothing else is in flight either.
Quiet(c) == /\ \A d \in Callers \ {c} : call[d].pc = "idle"
            /\ c # Sweeper => sw.pc = "idle"
CanStart(c) == call[c].pc = "idle" /\ (serial => Quiet(c))
CanSweep == sw.pc = "idle" /\ (serial => Quiet(Sweeper))
Snapshot == pre' = IF serial THEN table ELSE pre

Set(c, cl) == call' = [call EXCEPT ![c] = cl]

detectErr_verbatim(e) == e

detectErr_swallows(e) == "nil"

\* detectErr: ErrNotFound becomes nil, every other error is returned as it is
detectErr(e) == IF e = "ErrNotFound" THEN "nil" ELSE e

\* an engine error on its way out of a method: boltstore passes it through
\* detectErr, bboltstore returns it as it is
Surfaced(e) == IF variant = "BoltStore" THEN detectErr(e) ELSE e

\* ------------------------------------------------------------------ Create
CreateRet(id, e, replaced) ==
    [op |-> "Create", pc |-> "ret", id |-> id, err |-> e, replaced |-> replaced]

IsDuplicate_never(rID, sID) == FALSE

\* if r.ID == s.ID { return sessionup.ErrDuplicateID }
IsDuplicate(rID, sID) == rID = sID

\* Create, first engine call: One("ID", s.ID, &r), then the r.ID == s.ID test.
\* r stays the zero record when nothing is found.
CreateOne(c) ==
    /\ CanStart(c)
    /\ \E s \in Inputs :
        LET rID == IF Has(table, s.ID) THEN One(table, s.ID).ID ELSE 0
        IN  IF ~dbOpen THEN Set(c, CreateRet(s.ID, Surfaced("ErrDatabaseNotOpen"), FALSE))
            ELSE IF IsDuplicate(rID, s.ID) THEN Set(c, CreateRet(s.ID, "ErrDuplicateID", FALSE))
            ELSE Set(c, [op |-> "Create", pc |-> "save", id |-> s.ID, s |-> s])
    /\ Snapshot
    /\ UNCHANGED <<variant, serial, dbOpen, now, table, tx, sw>>

\* Create, second engine call: r = newRecord(s); Save(&r).  replaced is a
\* history flag: the Save met a record under its key.
CreateSave(c) ==
    /\ call[c].op = "Create" /\ call[c].pc = "save"
    /\ tx.owner = 0
    /\ IF ~dbOpen
       THEN /\ Set(c, CreateRet(call[c].id, Surfaced("ErrDatabaseNotOpen"), FALSE))
            /\ UNCHANGED table
       ELSE /\ table' = Save(table, Encode(call[c].s))
            /\ Set(c, CreateRet(call[c].id, "nil", Has(table, call[c].id)))
    /\ UNCHANGED <<variant, serial, dbOpen, now, tx, sw, pre>>

\* ------------------------------------------------------------------ fetches
\* what FetchByID(id) returns on a table: (session, found, error)
fetchByID(tbl, open, id) ==
    IF ~open THEN [sess |-> ZeroSession, found |-> FALSE, err |-> Surfaced("ErrDatabaseNotOpen")]
    ELSE IF ~Has(tbl, id)
    THEN [sess |-> ZeroSession, found |-> FALSE, err |-> detectErr("ErrNotFound")]
    ELSE [sess |-> Decode(One(tbl, id)), found |-> TRUE, err |-> "nil"]

\* a read transaction; concurrent behaviours leave the reads out, they change nothing
FetchByID(c) ==
    /\ serial
    /\ CanStart(c)
    /\ \E id \in AnyIDs :
        LET f == fetchByID(table, dbOpen, id)
        IN  Set(c, [op |-> "FetchByID", pc |-> "ret", id |-> id,
                    sess |-> f.sess, found |-> f.found, err |-> f.err])
    /\ Snapshot
    /\ UNCHANGED <<variant, serial, dbOpen, now, table, tx, sw>>

extractAll(rr) == [i \in 1..Len(rr) |-> Decode(rr[i])]

\* FetchByUserKey: a nil slice on an error and on ErrNotFound, else ss
FetchByUserKey(c) ==
    /\ serial
    /\ CanStart(c)
    /\ \E key \in Keys :
        LET rr == Find(table, key)
            cl == [op |-> "FetchByUserKey", pc |-> "ret", key |-> key,
                   list |-> <<>>, isNil |-> TRUE, err |-> "nil"]
        IN  IF ~dbOpen THEN Set(c, [cl EXCEPT !.err = Surfaced("ErrDatabaseNotOpen")])
            ELSE IF rr = <<>> THEN Set(c, [cl EXCEPT !.err = detectErr("ErrNotFound")])
            ELSE Set(c, [cl EXCEPT !.list = extractAll(rr), !.isNil = FALSE])
    /\ Snapshot
    /\ UNCHANGED <<variant, serial, dbOpen, now, table, tx, sw>>

\* the call returns to its caller
Return(c) ==
    /\ call[c].pc = "ret"
    /\ call' = [call EXCEPT ![c] = Idle]
    /\ pre' = {}
    /\ UNCHANGED <<variant, serial, dbOpen, now, table, tx, sw>>

\* ------------------------------------------------------------------ deletes
DeleteStruct_all(tbl, id) == {}

\* storm DeleteStruct(&r): removes the record under r's key
DeleteStruct(tbl, id) == {r \in tbl : r.ID # id}

DuringTx_writesThrough(tbl, id) == DeleteStruct(tbl, id)

\* tx.DeleteStruct(rr[i]) inside a write transaction: the committed bucket, the
\* one every reader sees, stays as it is until Commit
DuringTx(tbl, id) == tbl

\* tx.Commit(): the pending deletes reach the bucket
Commit(tbl, t) == {r \in tbl : r.ID \notin t.del}

\* what the open transaction sees
TxHas(tbl, t, id) == Has(tbl, id) /\ id \notin t.del

DelRet(id, e) == [op |-> "DeleteByID", pc |-> "ret", id |-> id, err |-> e]
DelKeyRet(key, excl, e) ==
    [op |-> "DeleteByUserKey", pc |-> "ret", key |-> key, excl |-> excl, err |-> e]

\* boltstore DeleteByID: Select(q.Eq("ID", id)).Delete(&record{}) through detectErr
DeleteByID(c) ==
    /\ variant = "BoltStore"
    /\ CanStart(c)
    /\ tx.owner = 0
    /\ \E id \in IDInputs :
        LET e == IF QueryMatches(table, {r \in table : r.ID = id}) THEN "nil" ELSE "ErrNotFound"
        IN  IF ~dbOpen
            THEN Set(c, DelRet(id, detectErr("ErrDatabaseNotOpen"))) /\ UNCHANGED table
            ELSE /\ table' = QueryDelete(table, {r \in table : r.ID = id})
                 /\ Set(c, DelRet(id, detectErr(e)))
    /\ Snapshot
    /\ UNCHANGED <<variant, serial, dbOpen, now, tx, sw>>

\* bboltstore DeleteByID, first engine call: One("ID", id, &r)
BBolt_DeleteByIDOne(c) ==
    /\ variant = "BBoltStore"
    /\ CanStart(c)
    /\ \E id \in IDInputs :
        IF ~dbOpen THEN Set(c, DelRet(id, "ErrDatabaseNotOpen"))
        ELSE IF ~Has(table, id) THEN Set(c, DelRet(id, "nil"))
        ELSE Set(c, [op |-> "DeleteByID", pc |-> "delete", id |-> id])
    /\ Snapshot
    /\ UNCHANGED <<variant, serial, dbOpen, now, table, tx, sw>>

\* bboltstore DeleteByID, second engine call: DeleteStruct(&r), its error returned as it is
BBolt_DeleteByIDStruct(c) ==
    /\ call[c].op = "DeleteByID" /\ call[c].pc = "delete"
    /\ tx.owner = 0
    /\ IF ~dbOpen
       THEN Set(c, DelRet(call[c].id, "ErrDatabaseNotOpen")) /\ UNCHANGED table
       ELSE IF ~Has(table, call[c].id)
       THEN Set(c, DelRet(call[c].id, "ErrNotFound")) /\ UNCHANGED table
       ELSE /\ table' = DeleteStruct(table, call[c].id)
            /\ Set(c, DelRet(call[c].id, "nil"))
    /\ UNCHANGED <<variant, serial, dbOpen, now, tx, sw, pre>>

Matches_ignoresExclude(r, key, excl) == r.UserKey = key

\* q.Eq("UserKey", key), q.Not(q.In("ID", expIDs))
Matches(r, key, excl) == r.UserKey = key /\ r.ID \notin excl

\* boltstore DeleteByUserKey: one Select(...).Delete(&record{}) through detectErr
DeleteByUserKey(c) ==
    /\ variant = "BoltStore"
    /\ CanStart(c)
    /\ tx.owner = 0
    /\ \E key \in Keys, excl \in Excludes :
        LET e == IF QueryMatches(table, {r \in table : Matches(r, key, excl)})
                 THEN "nil" ELSE "ErrNotFound"
        IN  IF ~dbOpen
            THEN Set(c, DelKeyRet(key, excl, detectErr("ErrDatabaseNotOpen"))) /\ UNCHANGED table
            ELSE /\ table' = QueryDelete(table, {r \in table : Matches(r, key, excl)})
                 /\ Set(c, DelKeyRet(key, excl, detectErr(e)))
    /\ Snapshot
    /\ UNCHANGED <<variant, serial, dbOpen, now, tx, sw>>

IDsOf(rr) == [i \in 1..Len(rr) |-> rr[i].ID]

\* the found records the Outer loop will delete: it passes over (continue Outer)
\* those whose ID is in expIDs
NotExcluded(rr, excl) == IDsOf(SelectSeq(rr, LAMBDA r : r.ID \notin excl))

\* bboltstore DeleteByUserKey, the lookup: Find("UserKey", key, &rr).  The loop's
\* test reads only rr and expIDs, so the excluded records are dropped here.
BBolt_DeleteByUserKeyFind(c) ==
    /\ variant = "BBoltStore"
    /\ CanStart(c)
    /\ \E key \in Keys, excl \in Excludes :
        LET rr == Find(table, key)
        IN  IF ~dbOpen THEN Set(c, DelKeyRet(key, excl, "ErrDatabaseNotOpen"))
            ELSE IF rr = <<>> THEN Set(c, DelKeyRet(key, excl, "nil"))
            ELSE Set(c, [op |-> "DeleteByUserKey", pc |-> "begin", key |-> key,
                         excl |-> excl, todo |-> NotExcluded(rr, excl)])
    /\ Snapshot
    /\ UNCHANGED <<variant, serial, dbOpen, now, table, tx, sw>>

\* bboltstore DeleteByUserKey: Begin(true), which waits for the writer lock
BBolt_DeleteByUserKeyBegin(c) ==
    /\ call[c].op = "DeleteByUserKey" /\ call[c].pc = "begin"
    /\ tx.owner = 0
    /\ IF ~dbOpen
       THEN Set(c, DelKeyRet(call[c].key, call[c].excl, "ErrDatabaseNotOpen")) /\ UNCHANGED tx
       ELSE /\ tx' = [owner |-> c, del |-> {}]
            /\ call' = [call EXCEPT ![c].pc = "loop"]
    /\ UNCHANGED <<variant, serial, dbOpen, now, table, sw, pre>>

\* bboltstore DeleteByUserKey: one tx.DeleteStruct(rr[i]) of the Outer loop; when
\* it fails the call returns and the deferred Rollback drops the pending deletes
BBolt_DeleteByUserKeyLoop(c) ==
    /\ call[c].op = "DeleteByUserKey" /\ call[c].pc = "loop"
    /\ call[c].todo # <<>>
    /\ LET id == Head(call[c].todo)
       IN  IF ~TxHas(table, tx, id)
           THEN /\ Set(c, DelKeyRet(call[c].key, call[c].excl, "ErrNotFound"))
                /\ tx' = NoTx
                /\ UNCHANGED table
           ELSE /\ call' = [call EXCEPT ![c].todo = Tail(@)]
                /\ tx' = [tx EXCEPT !.del = @ \cup {id}]
                /\ table' = DuringTx(table, id)
    /\ UNCHANGED <<variant, serial, dbOpen, now, sw, pre>>

\* bboltstore DeleteByUserKey: tx.Commit()
BBolt_DeleteByUserKeyCommit(c) ==
    /\ call[c].op = "DeleteByUserKey" /\ call[c].pc = "loop"
    /\ call[c].todo = <<>>
    /\ table' = Commit(table, tx)
    /\ tx' = NoTx
    /\ Set(c, DelKeyRet(call[c].key, call[c].excl, "nil"))
    /\ UNCHANGED <<variant, serial, dbOpen, now, sw, pre>>

\* ------------------------------------------------------------------ cleanup
\* q.Lte("ExpiresAt", time.Now()): at or before
Lte(a, b) == a <= b

\* rr[i].ExpiresAt.Before(n): strictly before
Before(a, b) == a < b

SwDone(e) == [SwIdle EXCEPT !.pc = "done", !.n = now, !.err = e]

\* boltstore cleanup: Select(q.Lte("ExpiresAt", time.Now())).Delete(&record{})
\* through detectErr
cleanup ==
    /\ variant = "BoltStore"
    /\ CanSweep
    /\ tx.owner = 0
    /\ LET e == IF QueryMatches(table, {r \in table : Lte(r.ExpiresAt, now)})
                THEN "nil" ELSE "ErrNotFound"
       IN  IF ~dbOpen
           THEN sw' = SwDone(detectErr("ErrDatabaseNotOpen")) /\ UNCHANGED table
           ELSE /\ table' = QueryDelete(table, {r \in table : Lte(r.ExpiresAt, now)})
                /\ sw' = SwDone(detectErr(e))
    /\ Snapshot
    /\ UNCHANGED <<variant, serial, dbOpen, now, tx, call>>

\* the scanned records the loop will delete: those with ExpiresAt.Before(n)
Expired(rr, n) == IDsOf(SelectSeq(rr, LAMBDA r : Before(r.ExpiresAt, n)))

\* bboltstore cleanUp, the scan: All(&rr), then n := time.Now().  The loop's
\* test reads only rr and n, so the records it will pass over are dropped here.
BBolt_cleanUpAll ==
    /\ variant = "BBoltStore"
    /\ CanSweep
    /\ IF ~dbOpen
       THEN sw' = SwDone("ErrDatabaseNotOpen")
       ELSE sw' = [SwIdle EXCEPT !.pc = "begin", !.n = now, !.todo = Expired(All(table), now)]
    /\ Snapshot
    /\ UNCHANGED <<variant, serial, dbOpen, now, table, tx, call>>

\* bboltstore cleanUp: Begin(true)
BBolt_cleanUpBegin ==
    /\ sw.pc = "begin"
    /\ tx.owner = 0
    /\ IF ~dbOpen
       THEN sw' = [sw EXCEPT !.pc = "done", !.todo = <<>>, !.err = "ErrDatabaseNotOpen"]
            /\ UNCHANGED tx
       ELSE /\ tx' = [owner |-> Sweeper, del |-> {}]
            /\ sw' = [sw EXCEPT !.pc = "loop"]
    /\ UNCHANGED <<variant, serial, dbOpen, now, table, call, pre>>

\* bboltstore cleanUp: one tx.DeleteStruct(rr[i]) of the loop; when it fails the
\* pass returns and the deferred Rollback drops the pending deletes
BBolt_cleanUpLoop ==
    /\ sw.pc = "loop"
    /\ sw.todo # <<>>
    /\ LET id == Head(sw.todo)
       IN  IF ~TxHas(table, tx, id)
           THEN /\ sw' = [sw EXCEPT !.pc = "done", !.todo = <<>>, !.err = "ErrNotFound"]
                /\ tx' = NoTx
                /\ UNCHANGED table
           ELSE /\ sw' = [sw EXCEPT !.todo = Tail(@)]
                /\ tx' = [tx EXCEPT !.del = @ \cup {id}]
                /\ table' = DuringTx(table, id)
    /\ UNCHANGED <<variant, serial, dbOpen, now, call, pre>>

\* bboltstore cleanUp: tx.Commit()
BBolt_cleanUpCommit ==
    /\ sw.pc = "loop"
    /\ sw.todo = <<>>
    /\ table' = Commit(table, tx)
    /\ tx' = NoTx
    /\ sw' = [sw EXCEPT !.pc = "done"]
    /\ UNCHANGED <<variant, serial, dbOpen, now, call, pre>>

\* the pass is over; the sweeper waits for its next tick
SweepReturn ==
    /\ sw.pc = "done"
    /\ sw' = SwIdle
    /\ pre' = {}
    /\ UNCHANGED <<variant, serial, dbOpen, now, table, tx, call>>

\* ------------------------------------------------------------------ environment
Tick ==
    /\ serial
    /\ now < MaxTime
    /\ now' = now + 1
    /\ UNCHANGED <<variant, serial, dbOpen, table, tx, call, sw, pre>>

\* the owner of the bolt handle closes it; bolt's Close waits for the write
\* transaction in flight
CloseDB ==
    /\ dbOpen
    /\ tx.owner = 0
    /\ dbOpen' = FALSE
    /\ UNCHANGED <<variant, serial, now, table, tx, call, sw, pre>>

Next ==
    \/ \E c \in Callers : CreateOne(c) /\ UNCHANGED lifeVars
    \/ \E c \in Callers : CreateSave(c) /\ UNCHANGED lifeVars
    \/ \E c \in Callers : FetchByID(c) /\ UNCHANGED lifeVars
    \/ \E c \in Callers : FetchByUserKey(c) /\ UNCHANGED lifeVars
    \/ \E c \in Callers : DeleteByID(c) /\ UNCHANGED lifeVars
    \/ \E c \in Callers : BBolt_DeleteByIDOne(c) /\ UNCHANGED lifeVars
    \/ \E c \in Callers : BBolt_DeleteByIDStruct(c) /\ UNCHANGED lifeVars
    \/ \E c \in Callers : DeleteByUserKey(c) /\ UNCHANGED lifeVars
    \/ \E c \in Callers : BBolt_DeleteByUserKeyFind(c) /\ UNCHANGED lifeVars
    \/ \E c \in Callers : BBolt_DeleteByUserKeyBegin(c) /\ UNCHANGED lifeVars
    \/ \E c \in Callers : BBolt_DeleteByUserKeyLoop(c) /\ UNCHANGED lifeVars
    \/ \E c \in Callers : BBolt_DeleteByUserKeyCommit(c) /\ UNCHANGED lifeVars
    \/ \E c \in Callers : Return(c) /\ UNCHANGED lifeVars
    \/ cleanup /\ UNCHANGED lifeVars
    \/ BBolt_cleanUpAll /\ UNCHANGED lifeVars
    \/ BBolt_cleanUpBegin /\ UNCHANGED lifeVars
    \/ BBolt_cleanUpLoop /\ UNCHANGED lifeVars
    \/ BBolt_cleanUpCommit /\ UNCHANGED lifeVars
    \/ SweepReturn /\ UNCHANGED lifeVars
    \/ Tick /\ UNCHANGED lifeVars
    \/ CloseDB /\ UNCHANGED lifeVars

Spec == Init /\ [][Next]_vars

\* ------------------------------------------------------------------ New, the cleanup goroutine, Close
\* The second specification starts before New and follows the store through
\* construction, the cleanup goroutine, CleanupErr and Close, with one
\* foreground caller next to the goroutine.
MaxInterval == 1
MaxClose == 2

\* bucket names (0 is the empty string) and cleanup intervals
Buckets == {0, 1}
Intervals == -1..MaxInterval
Foreground == {1}

ErrInvalidBucket == "invalid bucket name"
ErrInvalidInterval ==
    IF variant = "BBoltStore" THEN "invalid clean up interval" ELSE "invalid cleanup interval"

NotBuilt == [pc |-> "new", bucket |-> 0, interval |-> 0, opened |-> FALSE, err |-> "nil"]

LifeInit ==
    /\ variant \in {"BoltStore", "BBoltStore"}
    /\ serial = FALSE
    /\ dbOpen = TRUE
    /\ now = ConcNow
    /\ table = {}
    /\ tx = NoTx
    /\ call = [c \in Callers |-> Idle]
    /\ sw = SwIdle
    /\ pre = {}
    /\ built = NotBuilt
    /\ loop = "none"
    /\ closeCh = "nil"
    /\ errCh = "nil"
    /\ closer = NoClose
    /\ rcv = [waiting |-> FALSE, got |-> "none"]
    /\ timers = <<>>

NewErr_intervalFirst(bucket, interval) ==
    IF interval < 0 THEN ErrInvalidInterval
    ELSE IF bucket = 0 THEN ErrInvalidBucket
    ELSE IF ~dbOpen THEN "ErrDatabaseNotOpen"
    ELSE "nil"

\* New's checks in their order: the bucket name, the interval, storm.Open
NewErr(bucket, interval) ==
    IF bucket = 0 THEN ErrInvalidBucket
    ELSE IF interval < 0 THEN ErrInvalidInterval
    ELSE IF ~dbOpen THEN "ErrDatabaseNotOpen"
    ELSE "nil"

\* boltstore starts the goroutine if cleanupInterval != 0; bboltstore starts it always
StartsLoop(interval) == IF variant = "BoltStore" THEN interval # 0 ELSE TRUE

New ==
    /\ built.pc = "new"
    /\ \E bucket \in Buckets, interval \in Intervals :
        LET e == NewErr(bucket, interval)
        IN  /\ built' = [pc |-> IF e = "nil" THEN "ok" ELSE "failed",
                         bucket |-> bucket, interval |-> interval,
                         opened |-> e \notin {ErrInvalidBucket, ErrInvalidInterval},
                         err |-> e]
            /\ IF e = "nil"
               THEN /\ closeCh' = "open"
                    /\ errCh' = "open"
                    /\ loop' = IF StartsLoop(interval) THEN "run" ELSE "none"
               ELSE UNCHANGED <<closeCh, errCh, loop>>
    /\ UNCHANGED <<variant, serial, dbOpen, now, table, tx, call, sw, pre, closer, rcv, timers>>

\* a panic ends the process
Crashed == loop = "panic" \/ closer.pc = "panic"
\* New returned a store and the process is alive
Live == built.pc = "ok" /\ ~Crashed

\* the select of the goroutine takes the timer's case.  A ticker's pending tick
\* races with a sender on closeCh; time.After(d) is ready next to a closed
\* closeChan only when d is zero.
TickReady ==
    /\ Live
    /\ loop = "run"
    /\ variant = "BBoltStore" => (closeCh = "open" \/ built.interval = 0)

SendErr_drops ==
    /\ Live
    /\ sw.pc = "done" /\ sw.err # "nil"
    /\ sw' = SwIdle
    /\ UNCHANGED <<variant, serial, dbOpen, now, table, tx, call, pre, built, loop, closeCh, errCh, closer, rcv, timers>>

SendErr_nowait ==
    /\ Live
    /\ sw.pc = "done" /\ sw.err # "nil"
    /\ rcv' = [waiting |-> FALSE, got |-> sw.err]
    /\ sw' = SwIdle
    /\ UNCHANGED <<variant, serial, dbOpen, now, table, tx, call, pre, built, loop, closeCh, errCh, closer, timers>>

\* errCh <- err: handed to the reader that waits; a send on a closed channel panics
SendErr ==
    /\ Live
    /\ sw.pc = "done" /\ sw.err # "nil"
    /\ IF errCh = "closed"
       THEN /\ loop' = "panic"
            /\ UNCHANGED <<sw, rcv>>
       ELSE /\ rcv.waiting
            /\ rcv' = [waiting |-> FALSE, got |-> sw.err]
            /\ sw' = SwIdle
            /\ UNCHANGED loop
    /\ UNCHANGED <<variant, serial, dbOpen, now, table, tx, call, pre, built, closeCh, errCh, closer, timers>>

\* the select takes case <-closeCh and the goroutine returns: boltstore receives
\* what Close sends, bboltstore finds closeChan closed
SelectClose ==
    /\ Live
    /\ loop = "run" /\ sw.pc = "idle"
    /\ IF variant = "BoltStore"
       THEN closer.pc = "send" /\ closer' = [closer EXCEPT !.pc = "close"]
       ELSE closeCh = "closed" /\ UNCHANGED closer
    /\ loop' = "exit"
    /\ UNCHANGED <<variant, serial, dbOpen, now, table, tx, call, sw, pre, built, closeCh, errCh, rcv, timers>>

HandleAfterClose_closed(open) == FALSE

\* Close works on the two channels only: the bolt handle stays as it is
HandleAfterClose(open) == open

\* boltstore Close: b.closeCh <- struct{}{}, which waits for the goroutine's
\* select and panics on a closed channel
Close ==
    /\ variant = "BoltStore"
    /\ Live
    /\ closer.pc = "idle" /\ closer.done < MaxClose
    /\ closer' = [closer EXCEPT !.pc = IF closeCh = "closed" THEN "panic" ELSE "send"]
    /\ UNCHANGED <<variant, serial, dbOpen, now, table, tx, call, sw, pre, built, loop, closeCh, errCh, rcv, timers>>

\* boltstore Close: close(b.closeCh); close(b.errCh); return nil
CloseChans ==
    /\ variant = "BoltStore"
    /\ Live
    /\ closer.pc = "close"
    /\ closeCh' = "closed"
    /\ errCh' = "closed"
    /\ dbOpen' = HandleAfterClose(dbOpen)
    /\ closer' = [pc |-> "idle", done |-> closer.done + 1]
    /\ UNCHANGED <<variant, serial, now, table, tx, call, sw, pre, built, loop, rcv, timers>>

\* bboltstore Close: close(b.errChan), a panic when it is closed already
BBolt_CloseErrChan ==
    /\ variant = "BBoltStore"
    /\ Live
    /\ closer.pc = "idle" /\ closer.done < MaxClose
    /\ IF errCh = "closed"
       THEN closer' = [closer EXCEPT !.pc = "panic"] /\ UNCHANGED errCh
       ELSE closer' = [closer EXCEPT !.pc = "closeChan"] /\ errCh' = "closed"
    /\ UNCHANGED <<variant, serial, dbOpen, now, table, tx, call, sw, pre, built, loop, closeCh, rcv, timers>>

\* bboltstore Close: close(b.closeChan); return nil
BBolt_CloseCloseChan ==
    /\ variant = "BBoltStore"
    /\ Live
    /\ closer.pc = "closeChan"
    /\ closeCh' = "closed"
    /\ dbOpen' = HandleAfterClose(dbOpen)
    /\ closer' = [pc |-> "idle", done |-> closer.done + 1]
    /\ UNCHANGED <<variant, serial, now, table, tx, call, sw, pre, built, loop, errCh, rcv, timers>>

\* the reader of CleanupErr starts to wait: err := <-store.CleanupErr()
Receive ==
    /\ Live
    /\ ~rcv.waiting
    /\ rcv' = [waiting |-> TRUE, got |-> "none"]
    /\ UNCHANGED <<variant, serial, dbOpen, now, table, tx, call, sw, pre, built, loop, closeCh, errCh, closer, timers>>

\* a receive from the closed channel returns the zero value at once
ReceiveClosed ==
    /\ Live
    /\ rcv.waiting /\ errCh = "closed"
    /\ rcv' = [waiting |-> FALSE, got |-> "closed"]
    /\ UNCHANGED <<variant, serial, dbOpen, now, table, tx, call, sw, pre, built, loop, closeCh, errCh, closer, timers>>

\* time passes
Elapse ==
    /\ ~serial
    /\ now < MaxTime
    /\ now' = now + 1
    /\ UNCHANGED <<variant, serial, dbOpen, table, tx, call, sw, pre, built, loop, closeCh, errCh, closer, rcv, timers>>

\* the steps of the cleanup goroutine between two selects
Pass ==
    \/ TickReady /\ cleanup
    \/ TickReady /\ BBolt_cleanUpAll
    \/ Live /\ BBolt_cleanUpBegin
    \/ Live /\ BBolt_cleanUpLoop
    \/ Live /\ BBolt_cleanUpCommit
    \/ Live /\ sw.err = "nil" /\ SweepReturn

\* the steps that carry on a call in flight
Proceed(c) ==
    \/ CreateSave(c)
    \/ BBolt_DeleteByIDStruct(c)
    \/ BBolt_DeleteByUserKeyBegin(c)
    \/ BBolt_DeleteByUserKeyLoop(c)
    \/ BBolt_DeleteByUserKeyCommit(c)
    \/ Return(c)

LifeNext ==
    \/ New
    \/ \E c \in Foreground : Live /\ CreateOne(c) /\ UNCHANGED lifeVars
    \/ \E c \in Foreground : Live /\ CreateSave(c) /\ UNCHANGED lifeVars
    \/ \E c \in Foreground : Live /\ DeleteByID(c) /\ UNCHANGED lifeVars
    \/ \E c \in Foreground : Live /\ BBolt_DeleteByIDOne(c) /\ UNCHANGED lifeVars
    \/ \E c \in Foreground : Live /\ BBolt_DeleteByIDStruct(c) /\ UNCHANGED lifeVars
    \/ \E c \in Foreground : Live /\ DeleteByUserKey(c) /\ UNCHANGED lifeVars
    \/ \E c \in Foreground : Live /\ BBolt_DeleteByUserKeyFind(c) /\ UNCHANGED lifeVars
    \/ \E c \in Foreground : Live /\ BBolt_DeleteByUserKeyBegin(c) /\ UNCHANGED lifeVars
    \/ \E c \in Foreground : Live /\ BBolt_DeleteByUserKeyLoop(c) /\ UNCHANGED lifeVars
    \/ \E c \in Foreground : Live /\ BBolt_DeleteByUserKeyCommit(c) /\ UNCHANGED lifeVars
    \/ \E c \in Foreground : Live /\ Return(c) /\ UNCHANGED lifeVars
    \/ TickReady /\ cleanup /\ UNCHANGED lifeVars
    \/ TickReady /\ BBolt_cleanUpAll /\ UNCHANGED lifeVars
    \/ Live /\ BBolt_cleanUpBegin /\ UNCHANGED lifeVars
    \/ Live /\ BBolt_cleanUpLoop /\ UNCHANGED lifeVars
    \/ Live /\ BBolt_cleanUpCommit /\ UNCHANGED lifeVars
    \/ Live /\ sw.err = "nil" /\ SweepReturn /\ UNCHANGED lifeVars
    \/ SendErr
    \/ SelectClose
    \/ Close
    \/ CloseChans
    \/ BBolt_CloseErrChan
    \/ BBolt_CloseCloseChan
    \/ Receive
    \/ ReceiveClosed
    \/ Elapse
    \/ CloseDB /\ UNCHANGED lifeVars

LifeSpec == LifeInit /\ [][LifeNext]_vars

\* The third specification is the store at work with its cleanup goroutine:
\* New, one caller that creates and deletes by ID, the goroutine, the reader
\* of CleanupErr, the clock and the owner of the bolt handle; Close is not
\* called.  The goroutine is scheduled, and gets the writer lock, again and
\* again; a call in flight carries on; the reader comes back to CleanupErr.
SweepNext ==
    \/ New
    \/ \E c \in Foreground : Live /\ CreateOne(c) /\ UNCHANGED lifeVars
    \/ \E c \in Foreground : Live /\ CreateSave(c) /\ UNCHANGED lifeVars
    \/ \E c \in Foreground : Live /\ DeleteByID(c) /\ UNCHANGED lifeVars
    \/ \E c \in Foreground : Live /\ BBolt_DeleteByIDOne(c) /\ UNCHANGED lifeVars
    \/ \E c \in Foreground : Live /\ BBolt_DeleteByIDStruct(c) /\ UNCHANGED lifeVars
    \/ \E c \in Foreground : Live /\ Return(c) /\ UNCHANGED lifeVars
    \/ TickReady /\ cleanup /\ UNCHANGED lifeVars
    \/ TickReady /\ BBolt_cleanUpAll /\ UNCHANGED lifeVars
    \/ Live /\ BBolt_cleanUpBegin /\ UNCHANGED lifeVars
    \/ Live /\ BBolt_cleanUpLoop /\ UNCHANGED lifeVars
    \/ Live /\ BBolt_cleanUpCommit /\ UNCHANGED lifeVars
    \/ Live /\ sw.err = "nil" /\ SweepReturn /\ UNCHANGED lifeVars
    \/ SendErr
    \/ Receive
    \/ Elapse
    \/ CloseDB /\ UNCHANGED lifeVars

SweepFair ==
    /\ SF_vars(Pass /\ UNCHANGED lifeVars)
    /\ WF_vars(SendErr)
    /\ WF_vars(Receive)
    /\ WF_vars(\E c \in Foreground : Proceed(c) /\ UNCHANGED lifeVars)

SweepSpec == LifeInit /\ [][SweepNext]_vars /\ SweepFair


\* ------------------------------------------------------------------ per-record timers
\* The oldest store has no cleanup goroutine.  Create launches, for the record
\* it stored, a task that waits for the record's ExpiresAt or for the end of
\* the context passed to Create, whichever comes first, and deletes the record
\* in the first case only.
MaxTasks == 2

Tasks == 1..MaxTasks

TimerSessions ==
    {s \in Sessions : s.ID \in IDs /\ s.UserKey = 1 /\ ~s.Current /\ s.Meta = 0}

\* a task right after its launch: asleep, the context of its Create call live
\* (ended is the clock at which the context was cancelled, -1 before that)
Task(s) == [id |-> s.ID, at |-> s.ExpiresAt, pc |-> "wait", ctx |-> "live", ended |-> -1]

TimerInit ==
    /\ variant = "TimerStore"
    /\ serial = FALSE
    /\ dbOpen = TRUE
    /\ now = 0
    /\ table = {}
    /\ tx = NoTx
    /\ call = [c \in Callers |-> Idle]
    /\ sw = SwIdle
    /\ pre = {}
    /\ built = [Built EXCEPT !.interval = 0]
    /\ loop = "none"
    /\ closeCh = "nil"
    /\ errCh = "nil"
    /\ closer = NoClose
    /\ rcv = [waiting |-> FALSE, got |-> "none"]
    /\ timers = <<>>

\* Create, the lookup by s.ID and the duplicate test
Timer_CreateOne(c) ==
    /\ variant = "TimerStore"
    /\ CanStart(c)
    /\ Len(timers) < MaxTasks
    /\ \E s \in TimerSessions :
        IF Has(table, s.ID) THEN Set(c, CreateRet(s.ID, "ErrDuplicateID", FALSE))
        ELSE Set(c, [op |-> "Create", pc |-> "save", id |-> s.ID, s |-> s])
    /\ UNCHANGED <<variant, serial, dbOpen, now, table, tx, sw, pre, lifeVars>>

\* Create, the insert, and on success the launch of the record's task
Timer_CreateSave(c) ==
    /\ variant = "TimerStore"
    /\ call[c].op = "Create" /\ call[c].pc = "save"
    /\ table' = Save(table, BBolt_newRecord(call[c].s))
    /\ Set(c, CreateRet(call[c].id, "nil", Has(table, call[c].id)))
    /\ timers' = Append(timers, Task(call[c].s))
    /\ UNCHANGED <<variant, serial, dbOpen, now, tx, sw, pre, built, loop, closeCh, errCh, closer, rcv>>

\* DeleteByID: the record under id leaves the table; nothing happens when it is absent
Timer_DeleteByID(c) ==
    /\ variant = "TimerStore"
    /\ CanStart(c)
    /\ \E id \in IDs :
        /\ table' = DeleteStruct(table, id)
        /\ Set(c, DelRet(id, "nil"))
    /\ UNCHANGED <<variant, serial, dbOpen, now, tx, sw, pre, lifeVars>>

OnCancel_ignored(pc) == pc

\* what the end of the context does to the task: asleep, it returns without
\* deleting; its timer fired, it goes on
OnCancel(pc) == IF pc = "wait" THEN "stopped" ELSE pc

\* the caller cancels the context it passed to Create
Timer_Cancel(i) ==
    /\ i <= Len(timers)
    /\ timers[i].ctx = "live"
    /\ timers[i].pc \in {"wait", "fired"}
    /\ timers' = [timers EXCEPT ![i].ctx = "cancelled", ![i].ended = now,
                                 ![i].pc = OnCancel(@)]
    /\ UNCHANGED <<variant, serial, dbOpen, now, table, tx, call, sw, pre, built, loop, closeCh, errCh, closer, rcv>>

\* the task's timer fires: ExpiresAt is reached
Timer_Fire(i) ==
    /\ i <= Len(timers)
    /\ timers[i].pc = "wait"
    /\ now >= timers[i].at
    /\ timers' = [timers EXCEPT ![i].pc = "fired"]
    /\ UNCHANGED <<variant, serial, dbOpen, now, table, tx, call, sw, pre, built, loop, closeCh, errCh, closer, rcv>>

TimerDeleteStruct_expired(tbl, t) == {r \in tbl : r.ExpiresAt > t.at}

\* the single-record delete of a task: by the ID of the session it was launched for
TimerDeleteStruct(tbl, t) == DeleteStruct(tbl, t.id)

\* the task deletes its record and ends
Timer_Delete(i) ==
    /\ i <= Len(timers)
    /\ timers[i].pc = "fired"
    /\ table' = TimerDeleteStruct(table, timers[i])
    /\ timers' = [timers EXCEPT ![i].pc = "done"]
    /\ UNCHANGED <<variant, serial, dbOpen, now, tx, call, sw, pre, built, loop, closeCh, errCh, closer, rcv>>

TimerNext ==
    \/ \E c \in Foreground : Timer_CreateOne(c)
    \/ \E c \in Foreground : Timer_CreateSave(c)
    \/ \E c \in Foreground : Timer_DeleteByID(c)
    \/ \E c \in Foreground : Return(c) /\ UNCHANGED lifeVars
    \/ \E i \in Tasks : Timer_Cancel(i)
    \/ \E i \in Tasks : Timer_Fire(i)
    \/ \E i \in Tasks : Timer_Delete(i)
    \/ Elapse

\* the clock advances, a timer that is due fires, a task that woke up runs
TimerFair ==
    /\ WF_vars(Elapse)
    /\ WF_vars(\E i \in Tasks : Timer_Fire(i))
    /\ WF_vars(\E i \in Tasks : Timer_Delete(i))

TimerSpec == TimerInit /\ [][TimerNext]_vars /\ TimerFair


\* ------------------------------------------------------------------ claims
\* the records of a table under one ID
ById(tbl, id) == {r \in tbl : r.ID = id}

\* a session carries the persisted fields of a record
SameStored(s, r) ==
    /\ s.ID = r.ID /\ s.UserKey = r.UserKey
    /\ s.CreatedAt = r.CreatedAt /\ s.ExpiresAt = r.ExpiresAt
    /\ s.IP = r.IP /\ s.Agent = r.Agent

\* caller c holds the result of a call of op, issued serially on a healthy engine
SerialRet(c, op) ==
    serial /\ dbOpen /\ call[c].pc = "ret" /\ call[c].op = op

\* C1: a serial Create(s) issued while a record with ID = s.ID is in the table
\* returns ErrDuplicateID and leaves the table as it was: one record with that
\* ID, with its original fields.
C1_DuplicateCreate ==
    \A c \in Callers :
        (SerialRet(c, "Create") /\ Has(pre, call[c].id))
            => /\ call[c].err = "ErrDuplicateID"
               /\ table = pre
               /\ Cardinality(ById(table, call[c].id)) = 1

C1_Witness ==
    \E c \in Callers :
        /\ SerialRet(c, "Create") /\ Has(pre, call[c].id)
        /\ call[c].err = "ErrDuplicateID"
        /\ Cardinality(pre) = MaxID

\* C2: a serial Create(s) issued while no record with ID = s.ID is in the table
\* returns nil, adds exactly the record of s, leaves the other records alone,
\* and a following FetchByID(s.ID) returns (s, true, nil).  Stated for the
\* sessions with a non-empty ID.
C2_CreateInserts ==
    [][\A c \in Callers :
        (/\ serial /\ dbOpen
         /\ call'[c] # call[c] /\ call'[c].op = "Create" /\ call'[c].pc = "ret"
         /\ call'[c].id # 0 /\ ~Has(pre', call'[c].id))
            => /\ call'[c].err = "nil"
               /\ call[c].pc = "save"
               /\ table' = pre' \cup {Encode(call[c].s)}
               /\ Cardinality(table') = Cardinality(pre') + 1
               /\ LET f == fetchByID(table', TRUE, call'[c].id)
                  IN  f.found /\ f.err = "nil" /\ f.sess = call[c].s]_vars

\* C3: under every interleaving of Create, DeleteByID, DeleteByUserKey and
\* cleanup passes, the table holds at most one record per ID.
C3_UniqueID ==
    \A id \in KeysOf(table) : Cardinality(ById(table, id)) = 1

C3_Witness ==
    \E c \in Callers :
        /\ ~serial /\ call[c].op = "Create" /\ call[c].pc = "ret"
        /\ call[c].replaced /\ Has(table, call[c].id)

\* two Create calls of one ID that both returned nil, d's insert having met a
\* record that its existence check had not seen
Raced(c, d) ==
    /\ c # d /\ ~serial
    /\ call[c].op = "Create" /\ call[c].pc = "ret" /\ call[c].err = "nil"
    /\ call[d].op = "Create" /\ call[d].pc = "ret" /\ call[d].err = "nil"
    /\ call[c].id = call[d].id
    /\ call[d].replaced

\* C4 as stated: two concurrent Create calls of one absent ID that both pass
\* the existence check, both insert and both return nil leave two records with
\* that ID in the table.
C4_TwoRecords ==
    \A c, d \in Callers :
        Raced(c, d) => Cardinality(ById(table, call[c].id)) = 2

\* C4, amended: the existence check and the insert are two engine operations,
\* and two concurrent Create calls of one absent ID can both pass the check,
\* both insert and both return nil (the witness); every insert that returns
\* nil leaves exactly one record with its ID in the table, its own, so the
\* later insert replaces the earlier one; the other records stay.
C4_InsertReplaces ==
    [][\A c \in Callers :
        (/\ call[c].op = "Create" /\ call[c].pc = "save"
         /\ call'[c].pc = "ret" /\ call'[c].err = "nil")
            => /\ ById(table', call[c].id) = {Encode(call[c].s)}
               /\ table' \ ById(table', call[c].id) = table \ ById(table, call[c].id)]_vars

C4_Witness ==
    \E c, d \in Callers :
        Raced(c, d) /\ Cardinality(ById(table, call[c].id)) = 1

\* C5: a serial FetchByID(id) returns (zero session, false, nil) when no record
\* has the ID and (the record's session, true, nil) when one has; the table is
\* left as it was.
C5_FetchByID ==
    \A c \in Callers :
        SerialRet(c, "FetchByID")
            => /\ table = pre
               /\ call[c].err = "nil"
               /\ ~Has(pre, call[c].id)
                    => ~call[c].found /\ call[c].sess = ZeroSession
               /\ Has(pre, call[c].id)
                    => /\ call[c].found
                       /\ \A r \in ById(pre, call[c].id) : SameStored(call[c].sess, r)

C5_Witness ==
    \E c \in Callers :
        SerialRet(c, "FetchByID") /\ call[c].found /\ Cardinality(pre) = MaxID

\* C6: a serial FetchByUserKey(key) returns (nil, nil) when no record has the
\* key; otherwise exactly the sessions of the records with the key, one each
\* and none of another key, in storage order (ascending ID), with a nil error.
C6_FetchByUserKey ==
    \A c \in Callers :
        SerialRet(c, "FetchByUserKey")
            => LET M  == {r \in pre : r.UserKey = call[c].key}
                   ss == call[c].list
               IN  /\ table = pre
                   /\ call[c].err = "nil"
                   /\ call[c].isNil <=> M = {}
                   /\ Len(ss) = Cardinality(M)
                   /\ \A i \in 1..Len(ss) : \E r \in M : SameStored(ss[i], r)
                   /\ \A i, j \in 1..Len(ss) : i < j => ss[i].ID < ss[j].ID

C6_Witness ==
    \E c \in Callers :
        /\ SerialRet(c, "FetchByUserKey")
        /\ Len(call[c].list) = 1
        /\ \E r \in pre : r.UserKey # call[c].key

\* C7: a step of DeleteByID(id) changes the table only by removing the record
\* with that ID; a serial call returns nil and leaves the table it found less
\* that record, which is the same table when no record has the ID.
C7_DeleteByID ==
    [][\A c \in Callers :
        (call'[c] # call[c] /\ call'[c].op = "DeleteByID")
            => /\ table' \in {table, {r \in table : r.ID # call'[c].id}}
               /\ (serial /\ dbOpen /\ call'[c].pc = "ret")
                    => /\ call'[c].err = "nil"
                       /\ table' = {r \in pre' : r.ID # call'[c].id}]_vars

C7_Witness ==
    \E c \in Callers :
        /\ SerialRet(c, "DeleteByID") /\ Has(pre, call[c].id)
        /\ Cardinality(pre) = MaxID /\ Cardinality(table) = MaxID - 1

\* C8: a serial DeleteByUserKey(key, excludeIDs...) returns nil and leaves the
\* table it found less exactly the records with that UserKey whose ID is not
\* excluded; nothing changes when none matches.
C8_DeleteByUserKey ==
    \A c \in Callers :
        SerialRet(c, "DeleteByUserKey")
            => /\ call[c].err = "nil"
               /\ table = {r \in pre : ~(r.UserKey = call[c].key /\ r.ID \notin call[c].excl)}

C8_Witness ==
    \E c \in Callers :
        /\ SerialRet(c, "DeleteByUserKey")
        /\ \E r1, r2 \in pre :
            /\ r1.UserKey = call[c].key /\ r1.ID \notin call[c].excl
            /\ r2.UserKey = call[c].key /\ r2.ID \in call[c].excl
        /\ Cardinality(table) = 1

\* C9: DeleteByUserKey is all or nothing.  The committed table, which is what
\* readers see, changes in at most one step of a call: its last, which returns
\* nil and removes all the records the call deletes together.  A call that
\* returns an error has therefore deleted nothing.
C9_AllOrNothing ==
    [][\A c \in Callers :
        (call'[c] # call[c] /\ call'[c].op = "DeleteByUserKey" /\ table' # table)
            => /\ call'[c].pc = "ret" /\ call'[c].err = "nil"
               /\ table' \subseteq table
               /\ table \ table' =
                    IF variant = "BBoltStore"
                    THEN {r \in table : r.ID \in tx.del}
                    ELSE {r \in table : r.UserKey = call'[c].key /\ r.ID \notin call'[c].excl}]_vars

\* a transaction of DeleteByUserKey with one delete pending, one to come, and
\* the committed table still whole
C9_Witness ==
    /\ tx.owner \in Callers
    /\ call[tx.owner].op = "DeleteByUserKey"
    /\ tx.del # {} /\ call[tx.owner].todo # <<>>
    /\ \A id \in tx.del : Has(table, id)

\* C10: a serial cleanup pass returns nil and leaves the table it found less
\* exactly the records whose ExpiresAt is at or before the pass's now; a record
\* whose ExpiresAt equals now is removed.
C10_SweepAtOrBefore ==
    (serial /\ dbOpen /\ sw.pc = "done")
        => /\ sw.err = "nil"
           /\ table = {r \in pre : r.ExpiresAt > sw.n}

\* a record of the ID leaves the table
Disappears(id) == Has(table, id) /\ ~Has(table', id)
\* the step is one of caller c inside DeleteByID or DeleteByUserKey
DeleteStep(c) ==
    call'[c] # call[c] /\ call'[c].op \in {"DeleteByID", "DeleteByUserKey"}

\* C11: in a store built with interval zero no background task deletes a
\* record, however much time passes: a record leaves the table only in a step
\* of DeleteByID or DeleteByUserKey.
C11_NoSweeperAtZero ==
    [][(built.pc = "ok" /\ built.interval = 0)
        => \A id \in IDs : Disappears(id) => \E c \in Callers : DeleteStep(c)]_vars

\* the store is at work: built with a positive interval, never closed, the
\* engine healthy
Healthy == Live /\ built.interval > 0 /\ closer = NoClose /\ dbOpen
\* the table holds a record of the ID whose ExpiresAt has passed
HasPassed(id) == \E r \in table : r.ID = id /\ r.ExpiresAt < now

\* C12: with a positive interval, the store not closed, the engine healthy and
\* CleanupErr drained, a record whose ExpiresAt has passed is removed in the end.
C12_EventuallySwept ==
    \A id \in IDs : (Healthy /\ HasPassed(id)) ~> (~HasPassed(id) \/ ~Healthy)

\* C13: once Close has returned the goroutine starts no cleanup pass and
\* removes no record.  Stated for the stores built with a positive interval.
C13_NoSweepAfterClose ==
    [][(closer.done > 0 /\ built.interval > 0)
        => /\ sw.pc = "idle" => sw' = sw
           /\ sw' # sw => table' = table]_vars

\* C14: a call of Close neither panics nor waits for ever, whatever the
\* interval was and whether or not Close returned before: it is never inside
\* its send with no goroutine left to receive.
C14_CloseReturns ==
    /\ closer.pc # "panic"
    /\ closer.pc = "send" => loop = "run"

\* C15: a step of Close leaves the table, the write transaction, the calls in
\* flight and the bolt handle as they are; after Close has returned, on an
\* open handle, Create stores its record and FetchByID finds it, and what
\* DeleteByID and DeleteByUserKey were to delete is gone when they return.
C15_CloseKeepsStore ==
    [][/\ closer' # closer
            => /\ table' = table /\ tx' = tx /\ call' = call /\ dbOpen' = dbOpen
       /\ \A c \in Callers :
            (closer.done > 0 /\ dbOpen /\ call'[c] # call[c] /\ call'[c].pc = "ret")
                => /\ (call'[c].op = "Create" /\ call[c].pc = "save")
                        => /\ call'[c].err = "nil"
                           /\ table' = Save(table, Encode(call[c].s))
                           /\ fetchByID(table', dbOpen', call[c].id).found
                   /\ call'[c].op = "DeleteByID" => ~Has(table', call'[c].id)
                   /\ (call'[c].op = "DeleteByUserKey" /\ call'[c].err = "nil")
                        => ~\E r \in table' : Matches(r, call'[c].key, call'[c].excl)]_vars

C15_Witness ==
    \E c \in Callers :
        /\ closer.done > 0 /\ dbOpen /\ ~Crashed
        /\ call[c].op = "Create" /\ call[c].pc = "ret" /\ call[c].err = "nil"
        /\ Has(table, call[c].id)

\* the goroutine holds the error of a failed pass
Failed == sw.pc = "done" /\ sw.err # "nil"

\* C16: the error of a failed pass is offered on CleanupErr: the goroutine
\* leaves the failed pass only by handing that error to the reader, and a
\* reader that comes back to CleanupErr receives it.
C16_ErrorOffered ==
    /\ [][(Failed /\ sw' # sw) => (rcv.waiting /\ rcv'.got = sw.err)]_vars
    /\ \A e \in {"ErrDatabaseNotOpen", "ErrNotFound"} :
            (Failed /\ sw.err = e) ~> (rcv.got = e)

C16_Witness ==
    rcv.got = "ErrDatabaseNotOpen" /\ sw.pc = "idle"

\* C17: while the error of a failed pass waits for a reader the goroutine does
\* nothing, so the records stay unless a caller deletes them; the goroutine
\* goes back to its select once the error is received, and from the select it
\* runs a pass again.
C17_BlocksUntilReceived ==
    /\ [][(Failed /\ ~rcv.waiting) => sw' = sw]_vars
    /\ [][(Failed /\ sw' # sw) => (sw' = SwIdle /\ loop' = "run")]_vars
    /\ Failed ~> (sw.pc = "idle")
    /\ (Live /\ loop = "run" /\ sw.pc = "idle") ~> (sw.pc # "idle")

C17_Witness ==
    /\ Failed /\ ~rcv.waiting
    /\ rcv.got = sw.err
    /\ \E r \in table : r.ExpiresAt < now

\* C18: New with an empty bucket name fails with the invalid bucket error,
\* whatever the interval; with a bucket name and a negative interval it fails
\* with the invalid interval error; both return no store and leave no trace:
\* no goroutine, no channel, storm.Open not called, the bucket untouched.
C18_NewValidates ==
    built.pc # "new"
        => /\ built.bucket = 0 => built.err = ErrInvalidBucket
           /\ (built.bucket # 0 /\ built.interval < 0) => built.err = ErrInvalidInterval
           /\ built.err \in {ErrInvalidBucket, ErrInvalidInterval}
                => /\ built.pc = "failed"
                   /\ loop = "none" /\ closeCh = "nil" /\ errCh = "nil"
                   /\ ~built.opened
                   /\ table = {} /\ tx = NoTx /\ sw = SwIdle

C18_Witness ==
    built.pc = "failed" /\ built.bucket = 0 /\ built.interval < 0

\* C19: on a closed bolt handle every engine call fails, and the method hands
\* the engine's error to its caller as it is and leaves the table alone;
\* FetchByID returns it with the zero session and false, FetchByUserKey with
\* a nil slice.
C19_EngineErrorVerbatim ==
    [][\A c \in Callers :
        (~dbOpen /\ call'[c] # call[c] /\ call'[c].pc # "idle")
            => /\ call'[c].pc = "ret"
               /\ call'[c].err = "ErrDatabaseNotOpen"
               /\ table' = table
               /\ call'[c].op = "FetchByID"
                    => call'[c].sess = ZeroSession /\ ~call'[c].found
               /\ call'[c].op = "FetchByUserKey"
                    => call'[c].isNil /\ call'[c].list = <<>>]_vars

C19_Witness ==
    /\ ~dbOpen /\ table # {}
    /\ \E c \in Callers :
        call[c].op = "FetchByUserKey" /\ call[c].pc = "ret" /\ call[c].err = "ErrDatabaseNotOpen"

\* C20: on a healthy engine, whatever the interleaving of DeleteByID,
\* DeleteByUserKey and a cleanup pass, each of them returns nil, the one that
\* finds its record deleted by another included, and the pass has no error
\* to send.
C20_AbsentIsNoOp ==
    dbOpen
        => /\ \A c \in Callers :
                (call[c].pc = "ret" /\ call[c].op \in {"DeleteByID", "DeleteByUserKey"})
                    => call[c].err = "nil"
           /\ sw.pc = "done" => sw.err = "nil"

\* C21: the codec is a round trip: a session handed to Create comes back from
\* extractSession(newRecord(s)) field for field, Current and Meta included.
C21_RoundTrip ==
    \A c \in Callers :
        (call[c].op = "Create" /\ call[c].pc = "save")
            => Decode(Encode(call[c].s)) = call[c].s

\* C22: a task whose context is never cancelled deletes, once ExpiresAt is
\* reached, exactly the record under the ID of its session: the timer fires
\* at or after ExpiresAt only, the task's delete leaves every other record in
\* place and the ID absent, and the task gets there eventually.
C22_TimerDeletesItsRecord ==
    /\ [][\A i \in 1..Len(timers) :
            /\ (timers[i].pc = "wait" /\ timers'[i].pc = "fired") => now >= timers[i].at
            /\ (timers[i].pc = "fired" /\ timers'[i].pc = "done")
                    => /\ ~Has(table', timers[i].id)
                       /\ \A r \in table : r.ID # timers[i].id => r \in table']_vars
    /\ \A i \in Tasks :
            (i <= Len(timers) /\ timers[i].pc = "wait")
                ~> (i <= Len(timers) /\ (timers[i].ctx = "cancelled" \/ timers[i].pc = "done"))

C22_Witness ==
    \E i \in 1..Len(timers) :
        /\ timers[i].pc = "done" /\ timers[i].ctx = "live"
        /\ ~Has(table, timers[i].id)
        /\ \E r \in table : r.ID # timers[i].id /\ r.ExpiresAt >= timers[i].at

\* C23: a context cancelled before the timer fires stops the task for good
\* and the cancellation removes nothing, so the task never deletes; a
\* context cancelled after the timer fired changes nothing and the delete
\* takes place.
C23_CancelBeforeFire ==
    /\ [][\A i \in 1..Len(timers) :
            /\ (timers[i].pc = "wait" /\ timers'[i].ctx # timers[i].ctx)
                    => timers'[i].pc = "stopped" /\ table' = table
            /\ timers[i].pc = "stopped" => timers'[i].pc = "stopped"
            /\ table' # table /\ timers'[i] # timers[i] => timers[i].pc = "fired"]_vars
    /\ \A i \in Tasks :
            (i <= Len(timers) /\ timers[i].pc = "fired" /\ timers[i].ctx = "cancelled")
                ~> (i <= Len(timers) /\ timers[i].pc = "done")

C23_Witness ==
    /\ \E i \in 1..Len(timers) :
        /\ timers[i].pc = "stopped" /\ timers[i].ended < timers[i].at /\ timers[i].at < now
        /\ \E r \in table : r.ID = timers[i].id /\ r.ExpiresAt = timers[i].at
    /\ \E i \in 1..Len(timers) :
        timers[i].pc = "done" /\ timers[i].ctx = "cancelled" /\ timers[i].ended >= timers[i].at

\* C24: every record that a step of a cleanup pass takes out of the table has
\* its ExpiresAt at or before the pass's now, whatever Create and DeleteByID
\* did between the pass's scan and its deletes.
C24_SweepsOnlyExpired ==
    [][sw' # sw => \A r \in table \ table' : r.ExpiresAt <= sw'.n]_vars

\* C25: every record that a step of DeleteByUserKey(key, excludeIDs...) takes
\* out of the table has that UserKey and an ID outside excludeIDs, and when
\* the call returns nil no such record is left in the table.
C25_DeletesTheMatching ==
    [][\A c \in Callers :
        (call'[c] # call[c] /\ call'[c].op = "DeleteByUserKey")
            => /\ \A r \in table \ table' : Matches(r, call'[c].key, call'[c].excl)
               /\ (call'[c].pc = "ret" /\ call'[c].err = "nil")
                    => ~\E r \in table' : Matches(r, call'[c].key, call'[c].excl)]_vars

\* C26: the goroutine never sends on the error channel after Close closed it.
C26_NoSendOnClosed ==
    loop # "panic"

\* C27: the record stored under an ID keeps its field values as long as it is
\* in the table: no Create replaces or modifies it.
C27_NoLostUpdate ==
    [][\A id \in IDs :
        (Has(table, id) /\ Has(table', id)) => ById(table', id) = ById(table, id)]_vars

====
